---- MODULE Spec2Model ----
(***************************************************************************)
(* A model of geolabel_maker: the Annotation container                     *)
(* (annotations/annotation.py) and the raster helpers (rasters/utils.py).  *)
(*                                                                         *)
(* Python values are modelled as follows.                                  *)
(*   - a dict is a TLA+ function from its keys (strings) to its values;    *)
(*   - an argument of the constructor is a tagged value                    *)
(*       [type, size, items, rec]                                          *)
(*     type is the Python type name, size what bool() looks at (the        *)
(*     length of a container or string, the value of an int), items the    *)
(*     entries of a list or tuple and rec the content of a dict;           *)
(*   - a path field holds Str(parts), parts the sequence of the components *)
(*     of an absolute path, or None;                                       *)
(*   - an object handed to the caller is a value together with the place   *)
(*     of the Annotation it is the same object as ("owned": none, it is a  *)
(*     fresh copy).                                                        *)
(***************************************************************************)
EXTENDS Integers, Sequences, FiniteSets, TLC

(***************************************************************************)
(* TLC keeps the fields of a record sorted in the order in which it first  *)
(* met their names, and sorts a record written in another order in place.  *)
(* FieldNames makes that order the alphabetical one, and every record of   *)
(* this module is written with its fields in alphabetical order, so that   *)
(* no record is ever sorted while another worker reads it.                 *)
(***************************************************************************)
FieldNames ==
    [annotations |-> 1, arg |-> 2, attr |-> 3, box |-> 4, calls |-> 5,
     categories |-> 6, cls |-> 7, color |-> 8, date_created |-> 9,
     description |-> 10, file_name |-> 11, filename |-> 12, files |-> 13,
     fn |-> 14, found |-> 15, from |-> 16, height |-> 17, id |-> 18,
     idx |-> 19, image_id |-> 20, image_name |-> 21, images |-> 22,
     info |-> 23, items |-> 24, kind |-> 25, labels |-> 26, low |-> 27,
     made |-> 28, name |-> 29, note |-> 30, obj |-> 31, parts |-> 32,
     place |-> 33, raised |-> 34, rec |-> 35, records |-> 36, ret |-> 37,
     self |-> 38, size |-> 39, supercategory |-> 40, text |-> 41,
     type |-> 42, width |-> 43]

VARIABLES
    args,    \* the arguments of the last constructor call
    alive,   \* TRUE when that call returned an object
    err,     \* the exception the last call raised, "none" when it returned
    self,    \* the Annotation: images, categories, annotations, info
    self0,   \* self as the constructor left it
    pre,     \* self as it was before the last operation
    op,      \* the last operation
    ret,     \* what the last operation returned to the caller
    nmut,    \* the number of mutations the caller has made
    tile,    \* tile math: the tile (x, y, z) converted last
    bounds,  \* tile math: the result of xyz2bounds for it
    tbox,    \* tile math: the result of bbox2xyz on those bounds, and how it rounded
    mfn,     \* raster: the function called last
    mexc,    \* raster: the exception it raised, "none" when it returned
    masks,   \* raster: the masks handed to the last call
    held,    \* raster: the caller's arrays as they are after the call
    color,   \* raster: the color handed to color_mask
    out,     \* raster: the mask the last call returned
    out2,    \* raster: what color_mask returned for out and the same color
    resolved,\* build: the arguments of get_paths/get_categories and what they resolved
    built,   \* build: the function called last and the records it returned
    calls,   \* build: the calls the last build() made, in the order it made them
    made     \* build: what the constructor gave for the last build()

vars == <<args, alive, err, self, self0, pre, op, ret, nmut, tile, bounds, tbox,
          mfn, mexc, masks, held, color, out, out2, resolved, built,
          calls, made>>

annVars == <<self, self0, pre, op, ret, nmut>>
initVars == <<args, alive, err>>
tileVars == <<tile, bounds, tbox>>
maskVars == <<mfn, mexc, masks, held, color, out, out2>>
buildVars == <<resolved, built, calls, made>>

-----------------------------------------------------------------------------
(* Bounds of the model.                                                    *)

\* the records of one Annotation: len(images) + len(categories) + len(annotations)
MaxRecords == 3
\* the mutations a caller makes to returned objects
MaxMutations == 1
\* the files or categories handed to one build_* / make_* call
MaxItems == 3
\* the zoom levels of the tiles converted
MaxZoom == 3
\* the pixels of one mask
MaxPixels == 2
\* the masks handed to one merge_masks call
MaxMasks == 3

-----------------------------------------------------------------------------
(* Python values.                                                          *)

EmptyDict == [k \in {} |-> 0]

None == [cls |-> "NoneType", parts |-> <<>>]
Str(parts) == [cls |-> "str", parts |-> parts]

PyNone == [items |-> <<>>, rec |-> EmptyDict, size |-> 0, type |-> "NoneType"]
PyList(items) == [items |-> items, rec |-> EmptyDict, size |-> Len(items), type |-> "list"]
PyTuple(items) == [items |-> items, rec |-> EmptyDict, size |-> Len(items), type |-> "tuple"]
PyDict(rec) == [items |-> <<>>, rec |-> rec, size |-> Cardinality(DOMAIN rec), type |-> "dict"]
PyStr(n) == [items |-> <<>>, rec |-> EmptyDict, size |-> n, type |-> "str"]
PyInt(n) == [items |-> <<>>, rec |-> EmptyDict, size |-> n, type |-> "int"]

\* bool(v): None, 0 and the empty string, list, tuple and dict are falsy
bool(v) == v.type # "NoneType" /\ v.size # 0

isinstance(v, types) == v.type \in types

\* d[k] = v
SetItem(d, k, v) == [x \in DOMAIN d \cup {k} |-> IF x = k THEN v ELSE d[x]]

\* d.get(k, default)
Get(d, k, default) == IF k \in DOMAIN d THEN d[k] ELSE default

-----------------------------------------------------------------------------
(* annotation.py: the constructor.                                         *)

\* TRUE when _check_value returns, FALSE when it raises ValueError
_check_value(value) == isinstance(value, {"dict"})

\* TRUE when _check_values returns, FALSE when it raises ValueError
_check_values(values) ==
    /\ isinstance(values, {"list", "tuple"})
    /\ \A i \in 1..Len(values.items) : _check_value(values.items[i])

DefaultInfo ==
    [date_created |-> "now", description |-> "Auto-generated by Geolabel-Maker"]

Records(values) == [i \in 1..Len(values.items) |-> values.items[i].rec]

\* Annotation.__init__: [raised, self]
__init__(images, categories, annotations, info) ==
    LET images1 == IF bool(images) THEN images ELSE PyList(<<>>)
        categories1 == IF bool(categories) THEN categories ELSE PyList(<<>>)
        annotations1 == IF bool(annotations) THEN annotations ELSE PyList(<<>>)
        info1 == IF bool(info) THEN info ELSE PyDict(DefaultInfo)
    IN  IF /\ _check_values(images1)
           /\ _check_values(categories1)
           /\ _check_values(annotations1)
           /\ _check_value(info1)
        THEN [raised |-> "none",
              self |-> [annotations |-> Records(annotations1),
                        categories |-> Records(categories1),
                        images |-> Records(images1),
                        info |-> info1.rec]]
        ELSE [raised |-> "ValueError", self |-> EmptyDict]

NoSelf == [annotations |-> <<>>, categories |-> <<>>, images |-> <<>>, info |-> EmptyDict]

-----------------------------------------------------------------------------
(* The records and arguments the model draws from.                         *)

ImagePool ==
    { [file_name |-> Str(<<"data", "a", "b.png">>), id |-> 1],
      [file_name |-> None, id |-> 2],
      [width |-> 64] }

CategoryPool ==
    { [file_name |-> Str(<<"data", "c.json">>), id |-> 1, name |-> "road"],
      [name |-> "lake"] }

AnnotationPool ==
    { [id |-> 0, image_id |-> 1],
      [id |-> 1, image_id |-> 2],
      [id |-> 2, image_id |-> 2],
      [id |-> 3, image_name |-> Str(<<"work", "d.png">>)] }

CustomInfo == [description |-> "mine"]

\* a list entry that is a dict of the pool, or the string "not a dict"
Entries(pool) == {PyDict(r) : r \in pool} \cup {PyStr(10)}

\* values that are neither None nor a list or tuple, falsy ones first
NotSequences ==
    {PyDict(EmptyDict), PyStr(0), PyInt(0), PyDict([id |-> 1]), PyStr(10), PyInt(7)}

\* the values of a sequence argument that hold n entries
ArgVals(pool, n) ==
    IF n = 0
    THEN {PyNone, PyList(<<>>), PyTuple(<<>>)} \cup NotSequences
    ELSE UNION {{PyList(s), PyTuple(s)} : s \in [1..n -> Entries(pool)]}

InfoVals ==
    {PyNone, PyDict(CustomInfo), PyList(<<>>), PyTuple(<<>>),
     PyList(<<PyDict(CustomInfo)>>)} \cup NotSequences

\* the lists of n dicts of the pool: what a well-typed caller passes
ListVals(pool, n) == {PyList(s) : s \in [1..n -> {PyDict(r) : r \in pool}]}

-----------------------------------------------------------------------------
(* What the other components hold while one component is exercised.        *)

NoRet == [kind |-> "nothing"]

TileIdle ==
    /\ tile = <<0, 0, 0>>
    /\ bounds = <<>>
    /\ tbox = [box |-> <<>>, low |-> <<FALSE, FALSE>>]

MaskIdle ==
    /\ mfn = "none"
    /\ mexc = "none"
    /\ masks = <<>>
    /\ held = <<>>
    /\ color = <<0, 0, 0>>
    /\ out = <<>>
    /\ out2 = <<>>

BuildIdle ==
    /\ resolved = [files |-> <<>>, found |-> <<>>, items |-> <<>>]
    /\ built = [fn |-> "none", records |-> <<>>]
    /\ calls = <<>>
    /\ made = [raised |-> "none", self |-> NoSelf]

-----------------------------------------------------------------------------
(* The constructor as an operation.                                        *)

\* Annotation(images, categories, annotations, info)
Construct(images, categories, annotations, info) ==
    LET r == __init__(images, categories, annotations, info)
    IN  /\ args' = [annotations |-> annotations,
                    categories |-> categories,
                    images |-> images,
                    info |-> info]
        /\ alive' = (r.raised = "none")
        /\ err' = r.raised
        /\ self' = IF r.raised = "none" THEN r.self ELSE NoSelf
        /\ self0' = self'
        /\ pre' = self'
        /\ op' = "__init__"
        /\ ret' = NoRet
        /\ nmut' = 0

\* one constructor call, with any arguments
NewAnnotation ==
    /\ op = "start"
    /\ \E n1 \in 0..MaxRecords :
         \E n2 \in 0..(MaxRecords - n1) :
           \E n3 \in 0..(MaxRecords - n1 - n2) :
             \E images \in ArgVals(ImagePool, n1),
                categories \in ArgVals(CategoryPool, n2),
                annotations \in ArgVals(AnnotationPool, n3),
                info \in InfoVals :
               Construct(images, categories, annotations, info)
    /\ UNCHANGED <<tileVars, maskVars, buildVars>>

\* before the constructor is called there is no object
AnnIdle ==
    /\ args = [annotations |-> PyNone,
               categories |-> PyNone,
               images |-> PyNone,
               info |-> PyNone]
    /\ alive = FALSE
    /\ err = "none"
    /\ self = NoSelf
    /\ self0 = NoSelf
    /\ pre = NoSelf
    /\ op = "start"
    /\ ret = NoRet
    /\ nmut = 0

CtorInit == AnnIdle /\ TileIdle /\ MaskIdle /\ BuildIdle

CtorNext == NewAnnotation

SpecCtor == CtorInit /\ [][CtorNext]_vars

-----------------------------------------------------------------------------
(* C1: constructing an Annotation raises ValueError and yields no object   *)
(* whenever images, categories or annotations is given and is not a list   *)
(* or tuple whose entries are all dicts, or info is given and is not a     *)
(* dict; it returns an object otherwise. An argument is given when it is   *)
(* not None. Falsy values of the wrong type are covered.                   *)

IsSequenceOfMaps(v) ==
    \/ v = PyNone
    \/ /\ v.type \in {"list", "tuple"}
       /\ \A i \in 1..Len(v.items) : v.items[i].type = "dict"

IsMap(v) == v = PyNone \/ v.type = "dict"

WellTyped(a) ==
    /\ IsSequenceOfMaps(a.images)
    /\ IsSequenceOfMaps(a.categories)
    /\ IsSequenceOfMaps(a.annotations)
    /\ IsMap(a.info)

C1_SchemaError ==
    op = "__init__" =>
        /\ alive <=> WellTyped(args)
        /\ ~alive <=> (err = "ValueError" /\ self = NoSelf)

-----------------------------------------------------------------------------
(* Objects and references. A reference is a value with the place of the    *)
(* Annotation that holds the very same object: attr names the attribute    *)
(* and idx the entry of it (0: the attribute's own list or dict). A        *)
(* mutation made through a reference whose place is not Owned is a         *)
(* mutation of the Annotation.                                             *)

Owned == [attr |-> "owned", idx |-> 0]

Ref(obj, attr, idx) == [obj |-> obj, place |-> [attr |-> attr, idx |-> idx]]

\* copy.deepcopy: an equal value that shares nothing with the original
deepcopy(ref) == [obj |-> ref.obj, place |-> Owned]

-----------------------------------------------------------------------------
(* geolabel_maker.utils.relative_path, which to_dict calls: the path made  *)
(* relative to root; None is passed through.                               *)

\* the current directory, which the root "." stands for
Cwd == <<"work">>

RECURSIVE CommonPrefix(_, _)
CommonPrefix(p, r) ==
    IF p = <<>> \/ r = <<>> \/ Head(p) # Head(r)
    THEN 0
    ELSE 1 + CommonPrefix(Tail(p), Tail(r))

relative_path(path, root) ==
    IF path = None
    THEN None
    ELSE LET k == CommonPrefix(path.parts, root.parts)
         IN  Str([i \in 1..(Len(root.parts) - k) |-> ".."]
                 \o SubSeq(path.parts, k + 1, Len(path.parts)))

-----------------------------------------------------------------------------
(* annotation.py: to_dict and the accessors.                               *)

\* one loop of to_dict: record[key] = relative_path(record.get(key, None), root)
Rewrite(records, key, root) ==
    [i \in 1..Len(records) |->
        SetItem(records[i], key, relative_path(Get(records[i], key, None), root))]

\* to_dict with the annotations loop rewriting file_name, as the two loops before it
to_dict_same_key(s, root) ==
    LET root1 == IF root = None THEN Str(Cwd) ELSE root
        images == deepcopy(Ref(s.images, "images", 0))
        categories == deepcopy(Ref(s.categories, "categories", 0))
        annotations == deepcopy(Ref(s.annotations, "annotations", 0))
    IN  [annotations |-> [annotations EXCEPT !.obj = Rewrite(@, "file_name", root1)],
         categories |-> [categories EXCEPT !.obj = Rewrite(@, "file_name", root1)],
         images |-> [images EXCEPT !.obj = Rewrite(@, "file_name", root1)],
         info |-> Ref(s.info, "info", 0)]

\* Annotation.to_dict: the returned map, each value a reference
to_dict(s, root) ==
    LET root1 == IF root = None THEN Str(Cwd) ELSE root   \* root or "."
        images == deepcopy(Ref(s.images, "images", 0))
        categories == deepcopy(Ref(s.categories, "categories", 0))
        annotations == deepcopy(Ref(s.annotations, "annotations", 0))
    IN  [annotations |-> [annotations EXCEPT !.obj = Rewrite(@, "image_name", root1)],
         categories |-> [categories EXCEPT !.obj = Rewrite(@, "file_name", root1)],
         images |-> [images EXCEPT !.obj = Rewrite(@, "file_name", root1)],
         info |-> Ref(s.info, "info", 0)]

\* the entries at which the scan `for r in records: if r[key] == value` stops:
\* r[key] raises KeyError when r has no such key
Stops(records, key, value) ==
    {i \in 1..Len(records) : key \notin DOMAIN records[i] \/ records[i][key] = value}

Min(S) == CHOOSE i \in S : \A j \in S : i <= j

ReturnsNone == [kind |-> "None"]
Raises(e) == [kind |-> e]
Returns(kind, ref) == [kind |-> kind, obj |-> ref.obj, place |-> ref.place]

\* Annotation.get_image
get_image(s, image_id) ==
    LET stops == Stops(s.images, "id", image_id)
    IN  IF stops = {} THEN ReturnsNone
        ELSE IF "id" \notin DOMAIN s.images[Min(stops)] THEN Raises("KeyError")
        ELSE Returns("record", Ref(s.images[Min(stops)], "images", Min(stops)))

\* get_category returning the stored record, as get_image does
get_category_live(s, category_id) ==
    LET stops == Stops(s.categories, "id", category_id)
    IN  IF stops = {} THEN ReturnsNone
        ELSE IF "id" \notin DOMAIN s.categories[Min(stops)] THEN Raises("KeyError")
        ELSE Returns("record", Ref(s.categories[Min(stops)], "categories", Min(stops)))

\* Annotation.get_category
get_category(s, category_id) ==
    LET stops == Stops(s.categories, "id", category_id)
    IN  IF stops = {} THEN ReturnsNone
        ELSE IF "id" \notin DOMAIN s.categories[Min(stops)] THEN Raises("KeyError")
        ELSE Returns("record",
                     deepcopy(Ref(s.categories[Min(stops)], "categories", Min(stops))))

\* Annotation.get_annotation
get_annotation(s, annotation_id) ==
    LET stops == Stops(s.annotations, "id", annotation_id)
    IN  IF stops = {} THEN ReturnsNone
        ELSE IF "id" \notin DOMAIN s.annotations[Min(stops)] THEN Raises("KeyError")
        ELSE Returns("record",
                     deepcopy(Ref(s.annotations[Min(stops)], "annotations", Min(stops))))

\* labels.append(deepcopy(annotation)) for the annotations from position i on:
\* a sequence of references
RECURSIVE Collect(_, _, _)
Collect(annotations, i, image_id) ==
    IF i > Len(annotations) THEN <<>>
    ELSE IF annotations[i]["image_id"] = image_id
         THEN <<deepcopy(Ref(annotations[i], "annotations", i))>>
              \o Collect(annotations, i + 1, image_id)
         ELSE Collect(annotations, i + 1, image_id)

\* Annotation.get_labels
get_labels(s, image_id) ==
    IF \E i \in 1..Len(s.annotations) : "image_id" \notin DOMAIN s.annotations[i]
    THEN Raises("KeyError")
    ELSE Returns("list", Ref(Collect(s.annotations, 1, image_id), "owned", 0))

-----------------------------------------------------------------------------
(* The operations of a constructed Annotation, and a caller that mutates   *)
(* what they return.                                                       *)

Roots == {None, Str(<<"data">>)}
QueryIds == 1..2
Mutations == {<<"id", 2>>, <<"note", 7>>}

\* the result r of the call name(arg), as the caller holds it
Held(name, arg, r) ==
    [x \in DOMAIN r \cup {"from", "arg"} |->
        IF x = "from" THEN name ELSE IF x = "arg" THEN arg ELSE r[x]]

\* the Annotation after the object at place has become v
Write(s, place, v) ==
    IF place.attr = "owned" THEN s
    ELSE IF place.idx = 0 THEN [s EXCEPT ![place.attr] = v]
    ELSE [s EXCEPT ![place.attr][place.idx] = v]

Call(name, arg, r) ==
    /\ alive
    /\ ret' = Held(name, arg, r)
    /\ op' = name
    /\ pre' = self
    /\ UNCHANGED <<args, alive, err, self, self0, nmut, tileVars, maskVars, buildVars>>

ToDict == \E root \in Roots :
    Call("to_dict", root, [kind |-> "dict", obj |-> to_dict(self, root)])

GetImage == \E id \in QueryIds : Call("get_image", id, get_image(self, id))

GetCategory == \E id \in QueryIds : Call("get_category", id, get_category(self, id))

GetAnnotation == \E id \in QueryIds : Call("get_annotation", id, get_annotation(self, id))

GetLabels == \E id \in QueryIds : Call("get_labels", id, get_labels(self, id))

\* the caller's statement: held[k] = v, held[j][k] = v, d["info"][k] = v, ...
Mutate(newret, newself) ==
    /\ alive
    /\ nmut < MaxMutations
    /\ ret' = newret
    /\ self' = newself
    /\ pre' = self
    /\ op' = "mutate"
    /\ nmut' = nmut + 1
    /\ UNCHANGED <<args, alive, err, self0, tileVars, maskVars, buildVars>>

\* a record returned by get_image, get_category or get_annotation
MutateRecord ==
    /\ ret.kind = "record"
    /\ \E m \in Mutations :
         LET new == SetItem(ret.obj, m[1], m[2])
         IN  Mutate([ret EXCEPT !.obj = new], Write(self, ret.place, new))

\* a record of the list returned by get_labels
MutateLabel ==
    /\ ret.kind = "list"
    /\ \E j \in 1..Len(ret.obj), m \in Mutations :
         LET new == SetItem(ret.obj[j].obj, m[1], m[2])
         IN  Mutate([ret EXCEPT !.obj[j].obj = new], Write(self, ret.obj[j].place, new))

\* the info of the map returned by to_dict
MutateDictInfo ==
    /\ ret.kind = "dict"
    /\ \E m \in Mutations :
         LET new == SetItem(ret.obj.info.obj, m[1], m[2])
         IN  Mutate([ret EXCEPT !.obj.info.obj = new],
                    Write(self, ret.obj.info.place, new))

\* a record of the images, categories or annotations of that map
MutateDictRecord ==
    /\ ret.kind = "dict"
    /\ \E f \in {"images", "categories", "annotations"} :
         \E j \in 1..Len(ret.obj[f].obj), m \in Mutations :
           LET new == [ret.obj[f].obj EXCEPT ![j] = SetItem(@, m[1], m[2])]
           IN  Mutate([ret EXCEPT !.obj[f].obj = new],
                      Write(self, ret.obj[f].place, new))

\* an Annotation as the constructor built it from lists of dicts
Init ==
    /\ \E n1 \in 0..MaxRecords :
         \E n2 \in 0..(MaxRecords - n1) :
           \E n3 \in 0..(MaxRecords - n1 - n2) :
             \E images \in ListVals(ImagePool, n1),
                categories \in ListVals(CategoryPool, n2),
                annotations \in ListVals(AnnotationPool, n3),
                info \in {PyNone, PyDict(CustomInfo)} :
               LET r == __init__(images, categories, annotations, info)
               IN  /\ args = [annotations |-> annotations,
                              categories |-> categories,
                              images |-> images,
                              info |-> info]
                   /\ alive = (r.raised = "none")
                   /\ err = r.raised
                   /\ self = r.self
    /\ self0 = self
    /\ pre = self
    /\ op = "__init__"
    /\ ret = NoRet
    /\ nmut = 0
    /\ TileIdle /\ MaskIdle /\ BuildIdle

Next ==
    \/ ToDict
    \/ GetImage
    \/ GetCategory
    \/ GetAnnotation
    \/ GetLabels
    \/ MutateRecord
    \/ MutateLabel
    \/ MutateDictInfo
    \/ MutateDictRecord

Spec == Init /\ [][Next]_vars

-----------------------------------------------------------------------------
(* Claims about to_dict and the accessors, checked under Spec.             *)

Getters == {"get_image", "get_category", "get_annotation", "get_labels"}

\* the attribute a getter scans and the key it compares
Scanned(name) ==
    CASE name = "get_image" -> <<"images", "id">>
      [] name = "get_category" -> <<"categories", "id">>
      [] name = "get_annotation" -> <<"annotations", "id">>
      [] name = "get_labels" -> <<"annotations", "image_id">>

\* the positions of the records of s[attr] that have key with this value
Matches(s, attr, key, value) ==
    {i \in 1..Len(s[attr]) : key \in DOMAIN s[attr][i] /\ s[attr][i][key] = value}

\* the values of a sequence of references
Values(refs) == [i \in 1..Len(refs) |-> refs[i].obj]

\* the records of a sequence that are in the set keep, in their order
RECURSIVE Select(_, _)
Select(records, keep) ==
    IF records = <<>> THEN <<>>
    ELSE IF Head(records) \in keep
         THEN <<Head(records)>> \o Select(Tail(records), keep)
         ELSE Select(Tail(records), keep)

(* C2: to_dict copies images, categories, annotations and info: neither a  *)
(* to_dict call nor a mutation the caller makes to the images, categories, *)
(* annotations or info of the returned map changes the Annotation.         *)
C2_ToDictNeverMutates ==
    ret.kind = "dict" => self = pre

(* C3: to_dict(root) returns a map with exactly the keys info, images,     *)
(* categories and annotations; record i of each list is record i of the    *)
(* source with its path field (file_name of an image or category,          *)
(* image_name of an annotation) made relative to root, the current         *)
(* directory when root is None, and every other field as in the source;    *)
(* root /data turns /data/a/b.png into a/b.png.                            *)
PathKey(attr) == IF attr = "annotations" THEN "image_name" ELSE "file_name"

RewrittenAs(src, dst, key, root) ==
    /\ DOMAIN dst \ {key} = DOMAIN src \ {key}
    /\ \A k \in DOMAIN src \ {key} : dst[k] = src[k]
    /\ (key \in DOMAIN src /\ src[key] # None) =>
          /\ key \in DOMAIN dst
          /\ dst[key] = relative_path(src[key], IF root = None THEN Str(Cwd) ELSE root)
          /\ (root = Str(<<"data">>) /\ src[key] = Str(<<"data", "a", "b.png">>))
                => dst[key] = Str(<<"a", "b.png">>)

C3_ToDictRewritesPaths ==
    op = "to_dict" =>
        /\ DOMAIN ret.obj = {"info", "images", "categories", "annotations"}
        /\ ret.obj.info.obj = self.info
        /\ \A attr \in {"images", "categories", "annotations"} :
             /\ Len(ret.obj[attr].obj) = Len(self[attr])
             /\ \A i \in 1..Len(self[attr]) :
                  RewrittenAs(self[attr][i], ret.obj[attr].obj[i], PathKey(attr), ret.arg)

C3_Witness ==
    /\ op = "to_dict"
    /\ ret.arg = Str(<<"data">>)
    /\ Len(self.images) = 1 /\ Len(self.categories) = 1 /\ Len(self.annotations) = 1
    /\ "file_name" \in DOMAIN self.images[1]
    /\ self.images[1].file_name = Str(<<"data", "a", "b.png">>)
    /\ ret.obj.images.obj[1].file_name = Str(<<"a", "b.png">>)
    /\ "file_name" \in DOMAIN self.categories[1]
    /\ ret.obj.categories.obj[1].file_name = Str(<<"c.json">>)
    /\ "image_name" \in DOMAIN self.annotations[1]
    /\ ret.obj.annotations.obj[1].image_name = Str(<<"..", "work", "d.png">>)

(* C4: get_image, get_category, get_annotation and get_labels never raise; *)
(* when no record has the id they return None (get_labels: the empty       *)
(* list), also when records lack the key that is looked up.                *)
C4_AccessorsNeverRaise ==
    op \in Getters =>
        /\ ret.kind \in {"record", "list", "None"}
        /\ Matches(self, Scanned(op)[1], Scanned(op)[2], ret.arg) = {} =>
              IF op = "get_labels"
              THEN ret.kind = "list" /\ ret.obj = <<>>
              ELSE ret.kind = "None"

(* C5: get_labels(image_id) returns a new list holding exactly the         *)
(* annotation records whose image_id is image_id, each once, in the order  *)
(* of the Annotation's annotations; the empty list when there is none.     *)
C5_LabelsOfImage ==
    op = "get_labels" =>
        /\ ret.kind = "list"
        /\ ret.place = Owned
        /\ Values(ret.obj) =
              Select(self.annotations,
                     {self.annotations[i] : i \in Matches(self, "annotations", "image_id", ret.arg)})

(* C6: get_category, get_annotation and get_labels return copies the       *)
(* caller owns: whatever the caller does to them, the categories and       *)
(* annotations of the Annotation stay as constructed. get_image returns    *)
(* the stored record itself: a mutation of it is a mutation of that entry  *)
(* of images, and get_image with the same id returns the mutated record as *)
(* long as the record keeps that id.                                       *)
C6_CopiesAndLiveImage ==
    /\ self.categories = self0.categories
    /\ self.annotations = self0.annotations
    /\ (op \in Getters /\ ret.kind = "record") =>
          /\ ret.place = IF op = "get_image"
                         THEN [attr |-> "images", idx |-> Min(Stops(self.images, "id", ret.arg))]
                         ELSE Owned
    /\ (op = "mutate" /\ ret.from = "get_image") =>
          /\ pre.images[ret.place.idx] # ret.obj => self.images # pre.images
          /\ self.images[ret.place.idx] = ret.obj
          /\ ret.obj.id = ret.arg =>
                get_image(self, ret.arg) = Returns("record", Ref(ret.obj, "images", ret.place.idx))

C6_Witness ==
    /\ op = "mutate"
    /\ ret.from = "get_category"
    /\ "note" \in DOMAIN ret.obj
    /\ \E i \in 1..Len(self.categories) :
         /\ "id" \in DOMAIN self.categories[i]
         /\ self.categories[i].id = ret.arg
         /\ "note" \notin DOMAIN self.categories[i]

-----------------------------------------------------------------------------
(* annotation.py: build_images, build_categories, make_images and          *)
(* make_categories. A path or a name is a value [cls, text]: cls its       *)
(* Python class and text what str() gives for it. A color is [cls, items]. *)
(* A category is an object with name, color and filename.                  *)

str(v) == v.text
list(v) == [cls |-> "list", items |-> v.items]

RECURSIVE Dedup(_)
Dedup(seq) ==
    IF seq = <<>> THEN <<>>
    ELSE LET rest == Dedup(SubSeq(seq, 1, Len(seq) - 1))
         IN  IF \E i \in 1..Len(rest) : rest[i] = seq[Len(seq)]
             THEN rest
             ELSE Append(rest, seq[Len(seq)])

\* _utils.get_paths: the files given, then those found in the directory,
\* each path once
get_paths(files, found) == Dedup(files \o found)

\* _utils.get_categories: the categories given, else those made from the
\* colors or loaded from the directory
get_categories(categories, found) == IF categories # <<>> THEN categories ELSE found

\* PIL's Image.open(path).size: the width and height stored in the file
ImageSize(path) == IF str(path) = "a.png" THEN <<64, 32>> ELSE <<256, 256>>

\* build_images with the ids counted from 1
build_images_from_one(images_paths) ==
    [i \in 1..Len(images_paths) |->
        [file_name |-> str(images_paths[i]),
         height |-> ImageSize(images_paths[i])[2],
         id |-> i,
         width |-> ImageSize(images_paths[i])[1]]]

\* Annotation.build_images, from the resolved paths on: enumerate() counts from 0,
\* a TLA+ sequence from 1
build_images(images_paths) ==
    [i \in 1..Len(images_paths) |->
        [file_name |-> str(images_paths[i]),
         height |-> ImageSize(images_paths[i])[2],
         id |-> i - 1,
         width |-> ImageSize(images_paths[i])[1]]]

\* Annotation.make_images
make_images(images_paths) == build_images(images_paths)

\* Annotation.build_categories, from the resolved categories on
build_categories(categories) ==
    [i \in 1..Len(categories) |->
        [color |-> list(categories[i].color),
         file_name |-> str(categories[i].filename),
         id |-> i - 1,
         name |-> str(categories[i].name),
         supercategory |-> str(categories[i].name)]]

\* Annotation.make_categories, from the resolved categories on
make_categories(categories) ==
    [i \in 1..Len(categories) |->
        [color |-> list(categories[i].color),
         file_name |-> str(categories[i].filename),
         id |-> i - 1,
         name |-> str(categories[i].name),
         supercategory |-> str(categories[i].name)]]

PathObjs ==
    { [cls |-> "str", text |-> "a.png"],
      [cls |-> "Path", text |-> "b.png"],
      [cls |-> "str", text |-> "c.png"] }

CategoryObjs ==
    { [color |-> [cls |-> "tuple", items |-> <<255, 0, 0>>],
       filename |-> [cls |-> "Path", text |-> "road.json"],
       name |-> [cls |-> "str", text |-> "road"]],
      [color |-> [cls |-> "tuple", items |-> <<0, 0, 255>>],
       filename |-> [cls |-> "NoneType", text |-> "None"],
       name |-> [cls |-> "str", text |-> "lake"]] }

SeqsUpTo(S, n) == UNION {[1..k -> S] : k \in 0..n}

Resolve(fn, files, found, items, records) ==
    /\ resolved' = [files |-> files, found |-> found, items |-> items]
    /\ built' = [fn |-> fn, records |-> records]
    /\ UNCHANGED <<calls, made>>
    /\ UNCHANGED <<initVars, annVars, tileVars, maskVars>>

BuildImages ==
    \E n \in 0..MaxItems :
      \E files \in [1..n -> PathObjs], found \in SeqsUpTo(PathObjs, MaxItems - n) :
        LET images_paths == get_paths(files, found)
        IN  Resolve("build_images", files, found, images_paths, build_images(images_paths))

MakeImages ==
    \E n \in 0..MaxItems :
      \E files \in [1..n -> PathObjs], found \in SeqsUpTo(PathObjs, MaxItems - n) :
        LET images_paths == get_paths(files, found)
        IN  Resolve("make_images", files, found, images_paths, make_images(images_paths))

BuildCategories ==
    \E given \in SeqsUpTo(CategoryObjs, MaxItems), found \in SeqsUpTo(CategoryObjs, 1) :
      LET categories == get_categories(given, found)
      IN  Resolve("build_categories", given, found, categories, build_categories(categories))

MakeCategories ==
    \E given \in SeqsUpTo(CategoryObjs, MaxItems), found \in SeqsUpTo(CategoryObjs, 1) :
      LET categories == get_categories(given, found)
      IN  Resolve("make_categories", given, found, categories, make_categories(categories))

BuildInit == AnnIdle /\ TileIdle /\ MaskIdle /\ BuildIdle

BuildNext == BuildImages \/ MakeImages \/ BuildCategories \/ MakeCategories

SpecBuild == BuildInit /\ [][BuildNext]_vars

(* C7: ids are positional. The list that build_images, build_categories,   *)
(* make_images or make_categories returns for n resolved items has n       *)
(* records; the record at position i (from 0) has id i and describes the   *)
(* i-th resolved item: its file_name, and for a category its name, its     *)
(* supercategory (the name) and its color. So the ids are 0..n-1, each     *)
(* once.                                                                   *)
C7_PositionalIds ==
    built.fn # "none" =>
        LET n == Len(resolved.items)
            rec == built.records
        IN  /\ Len(rec) = n
            /\ {rec[i].id : i \in 1..n} = 0..(n - 1)
            /\ \A i \in 1..n :
                 /\ rec[i].id = i - 1
                 /\ IF built.fn \in {"build_images", "make_images"}
                    THEN /\ rec[i].file_name = resolved.items[i].text
                         /\ <<rec[i].width, rec[i].height>> = ImageSize(resolved.items[i])
                    ELSE /\ rec[i].file_name = resolved.items[i].filename.text
                         /\ rec[i].name = resolved.items[i].name.text
                         /\ rec[i].supercategory = rec[i].name
                         /\ rec[i].color.items = resolved.items[i].color.items

C7_Witness ==
    /\ built.fn = "make_images"
    /\ Len(resolved.items) = 3
    /\ built.records[3].id = 2
    /\ built.records[3].file_name = "a.png"
    /\ built.records[1].file_name = "c.png"

-----------------------------------------------------------------------------
(* rasters/utils.py: tile math. TLA+ has no reals:                         *)
(*   - a longitude is in degrees, as a fixed-point number with LonOne      *)
(*     units to the degree, which is exact for the edges of the tiles;     *)
(*   - a mercator ordinate is in units of pi / PiUnits;                    *)
(*   - a latitude is in millionths of a degree. LatNorth holds             *)
(*     degrees(atan(sinh(m))) for m = 0, 2, 4, ... , PiUnits units, which  *)
(*     are the latitudes of the tile edges of the northern half; the       *)
(*     function is odd;                                                    *)
(*   - log(tan(lat) + sec(lat)) is the inverse of atan(sinh(m)). In        *)
(*     floating point the composition of the two is off by a rounding      *)
(*     error, so that floor() of a product that is a whole number y in     *)
(*     exact arithmetic gives y or y - 1: latlon2xyz takes the outcome as  *)
(*     the parameter low. Both outcomes occur for tiles of every zoom.     *)

LonOne == 2 ^ 10

LatNorth ==
    <<0, 21943046, 40979898, 55776573, 66513260, 74019543, 79171335, 82676285, 85051129>>

PiUnits == 2 * (Len(LatNorth) - 1)

\* mercator2lat
mercator2lat(mercator_y) ==
    IF mercator_y >= 0
    THEN LatNorth[(mercator_y \div 2) + 1]
    ELSE 0 - LatNorth[((0 - mercator_y) \div 2) + 1]

\* log(tan(radians(lat)) + sec(radians(lat)))
InverseMercator(lat) ==
    CHOOSE m \in {2 * k - PiUnits : k \in 0..PiUnits} : mercator2lat(m) = lat

\* latlon2xyz; low: the rounding of y fell below the whole number
latlon2xyz(lat, lon, z, low) ==
    LET tile_count == 2 ^ z
        \* tile_count * x, x = (lon + 180) / 360
        x == (tile_count * (lon + 180 * LonOne)) \div (360 * LonOne)
        \* tile_count * y, y = (1 - log(...) / pi) / 2, as a fraction num / den
        num == tile_count * (PiUnits - InverseMercator(lat))
        den == 2 * PiUnits
    IN  <<x, IF low /\ num % den = 0 THEN (num \div den) - 1 ELSE num \div den>>

\* bbox2xyz with each corner giving the min or the max of both coordinates
bbox2xyz_swapped(lon_min, lat_min, lon_max, lat_max, z, low) ==
    LET a == latlon2xyz(lat_min, lon_min, z, low[1])
        b == latlon2xyz(lat_max, lon_max, z, low[2])
    IN  <<a[1], a[2], b[1], b[2]>>

\* bbox2xyz
bbox2xyz(lon_min, lat_min, lon_max, lat_max, z, low) ==
    LET a == latlon2xyz(lat_min, lon_min, z, low[1])   \* x_min, y_max
        b == latlon2xyz(lat_max, lon_max, z, low[2])   \* x_max, y_min
    IN  <<a[1], b[2], b[1], a[2]>>

\* yz2bounds
yz2bounds(y, z) ==
    LET tile_count == 2 ^ z
        unit == PiUnits \div tile_count        \* 1 / tile_count, in 1 / PiUnits
        relative_y1 == y * unit
        relative_y2 == relative_y1 + unit
        lat1 == mercator2lat(PiUnits - 2 * relative_y1)
        lat2 == mercator2lat(PiUnits - 2 * relative_y2)
    IN  <<lat1, lat2>>

\* xz2bounds
xz2bounds(x, z) ==
    LET tile_count == 2 ^ z
        unit == (360 * LonOne) \div tile_count
        lon1 == 0 - 180 * LonOne + x * unit
        lon2 == lon1 + unit
    IN  <<lon1, lon2>>

\* xyz2bounds
xyz2bounds(x, y, z) ==
    LET lat == yz2bounds(y, z)
        lon == xz2bounds(x, z)
    IN  <<lon[1], lat[1], lon[2], lat[2]>>

\* bbox2xyz(*xyz2bounds(x, y, z), z)
RoundTrip ==
    \E z \in 0..MaxZoom :
      \E x \in 0..(2 ^ z - 1), y \in 0..(2 ^ z - 1), low \in BOOLEAN \X BOOLEAN :
        LET b == xyz2bounds(x, y, z)
        IN  /\ tile' = <<x, y, z>>
            /\ bounds' = b
            /\ tbox' = [box |-> bbox2xyz(b[1], b[2], b[3], b[4], z, low), low |-> low]
            /\ UNCHANGED <<initVars, annVars, maskVars, buildVars>>

TileInit == AnnIdle /\ TileIdle /\ MaskIdle /\ BuildIdle

TileNext == RoundTrip

SpecTile == TileInit /\ [][TileNext]_vars

(* C8, as claimed: for every zoom z >= 0 and every tile (x, y) with        *)
(* 0 <= x, y < 2^z, bbox2xyz at zoom z of the four values of               *)
(* xyz2bounds(x, y, z), in the order returned, is (x, y, x, y).            *)
C8_RoundTripRecoversTile ==
    bounds # <<>> => tbox.box = <<tile[1], tile[2], tile[1], tile[2]>>

(* C8, amended: the result is the tile box (x, y + 1, x + 1, y) in exact   *)
(* arithmetic: xyz2bounds returns the edges the tile shares with its       *)
(* neighbours, the northern latitude second, so x_min = x, x_max = x + 1,  *)
(* y_max comes from the northern edge and y_min from the southern one.     *)
(* Rounding can lower either y by one: y_min is y or y + 1 and y_max is    *)
(* y - 1 or y. It is never (x, y, x, y).                                   *)
C8_RoundTripGivesEdges ==
    bounds # <<>> =>
        LET x == tile[1]
            y == tile[2]
        IN  /\ bounds[1] < bounds[3]
            /\ bounds[2] > bounds[4]
            /\ tbox.box[1] = x
            /\ tbox.box[3] = x + 1
            /\ tbox.box[2] \in {y, y + 1}
            /\ tbox.box[4] \in {y - 1, y}
            /\ tbox.low = <<FALSE, FALSE>> => tbox.box = <<x, y + 1, x + 1, y>>
            /\ tbox.box # <<x, y, x, y>>

C8_Witness ==
    /\ bounds # <<>>
    /\ tile = <<2, 1, 2>>
    /\ bounds = <<0, 66513260, 90 * LonOne, 0>>
    /\ tbox.box = <<2, 2, 3, 1>>

-----------------------------------------------------------------------------
(* The raster helpers color_mask and merge_masks (rasters/utils.py).       *)
(*                                                                         *)
(* A mask is a numpy array of shape (H, W, 3) of dtype uint8: here the     *)
(* sequence of its H * W pixels, a pixel being <<R, G, B>>. Two masks have *)
(* the same dimensions when they have the same number of pixels. A call    *)
(* gives [arg, ret], or [arg, raised, ret] for one that can raise: arg is  *)
(* the caller's array as the call leaves it and ret the array returned.    *)

Uint8 == 2 ^ 8

Black == <<0, 0, 0>>

\* numpy.ndarray.copy, and astype("uint8") of an array of integers
copy(array) == array
astype_uint8(array) ==
    [i \in 1..Len(array) |-> [c \in 1..3 |-> array[i][c] % Uint8]]

\* np.any(color_img != [0, 0, 0], axis=-1): one boolean for each pixel
np_any_differs(color_img) ==
    [i \in 1..Len(color_img) |-> \E c \in 1..3 : color_img[i][c] # Black[c]]

\* the same with np.all: a pixel counts when all of its channels differ
np_all_differs(color_img) ==
    [i \in 1..Len(color_img) |-> \A c \in 1..3 : color_img[i][c] # Black[c]]

\* color_img[mask] = np.array(color) for the color rgb, a store into an array of dtype uint8
SetWhere(color_img, mask, rgb) ==
    [i \in 1..Len(color_img) |->
        IF mask[i] THEN [c \in 1..3 |-> rgb[c] % Uint8] ELSE color_img[i]]

\* color_mask with the non-black pixels found by np.all
color_mask_all(mask, rgb) ==
    LET color_img == copy(mask)
        mask1 == np_all_differs(color_img)
    IN  [arg |-> mask, ret |-> SetWhere(color_img, mask1, rgb)]

\* color_mask
color_mask(mask, rgb) ==
    LET color_img == copy(mask)
        mask1 == np_any_differs(color_img)     \* the name mask, bound again
    IN  [arg |-> mask, ret |-> SetWhere(color_img, mask1, rgb)]

Min2(a, b) == IF a < b THEN a ELSE b

\* PIL's ImageChops.add_modulo(image1, image2): (image1 + image2) % MAX
ImageChops_add_modulo(image1, image2) ==
    [i \in 1..Len(image1) |-> [c \in 1..3 |-> (image1[i][c] + image2[i][c]) % Uint8]]

\* PIL's ImageChops.add(image1, image2) with scale 1 and offset 0:
\* image1 + image2 clipped to the range of a channel
ImageChops_add(image1, image2) ==
    [i \in 1..Len(image1) |-> [c \in 1..3 |-> Min2(Uint8 - 1, image1[i][c] + image2[i][c])]]

\* the loop of merge_masks over masks[1:], from the mask at position k on;
\* ImageChops.add raises ValueError for images of different sizes
RECURSIVE AddAll(_, _, _)
AddAll(out_image, masks1, k) ==
    IF k > Len(masks1)
    THEN [raised |-> "none", ret |-> out_image]
    ELSE LET mask_image == astype_uint8(masks1[k])
         IN  IF Len(mask_image) # Len(out_image)
             THEN [raised |-> "ValueError", ret |-> <<>>]
             ELSE AddAll(ImageChops_add(out_image, mask_image), masks1, k + 1)

\* merge_masks; masks[0] of an empty list raises IndexError
merge_masks(masks1) ==
    IF Len(masks1) = 0
    THEN [arg |-> masks1, raised |-> "IndexError", ret |-> <<>>]
    ELSE LET r == AddAll(astype_uint8(masks1[1]), masks1, 2)
         IN  [arg |-> masks1, raised |-> r.raised, ret |-> r.ret]

(* The inputs: masks of up to MaxPixels pixels, black, one color with a    *)
(* channel at zero and one with all channels set; lists of masks of the    *)
(* same dimensions, the empty list and pairs of different dimensions.      *)
PixelPool == {Black, <<100, 0, 200>>, <<200, 100, 255>>}

ColorPool == {Black, <<100, 0, 200>>, <<0, 255, 0>>}

MasksOf(n) == [1..n -> PixelPool]

MaskVals == UNION {MasksOf(n) : n \in 1..MaxPixels}

MaskLists ==
    {<<>>}
    \cup UNION {[1..k -> MasksOf(n)] : n \in 1..MaxPixels, k \in 1..MaxMasks}
    \cup {<<a, b>> : a \in MasksOf(1), b \in MaskVals \ MasksOf(1)}
    \cup {<<a, b>> : a \in MaskVals \ MasksOf(1), b \in MasksOf(1)}

\* out = color_mask(mask, color): the calls are independent of one another,
\* a behaviour follows one of them
ColorMask ==
    /\ mfn = "none"
    /\ \E mask \in MaskVals, c \in ColorPool :
        LET r == color_mask(mask, c)
        IN  /\ mfn' = "color_mask"
            /\ mexc' = "none"
            /\ masks' = <<mask>>
            /\ held' = <<r.arg>>
            /\ color' = c
            /\ out' = r.ret
            /\ out2' = <<>>
            /\ UNCHANGED <<initVars, annVars, tileVars, buildVars>>

\* out2 = color_mask(out, color), out being the mask the last call returned
ColorMaskAgain ==
    /\ mfn = "color_mask"
    /\ out2 = <<>>
    /\ LET r == color_mask(out, color)
       IN  /\ out' = r.arg
           /\ out2' = r.ret
    /\ UNCHANGED <<mfn, mexc, masks, held, color>>
    /\ UNCHANGED <<initVars, annVars, tileVars, buildVars>>

\* out = merge_masks(masks)
MergeMasks ==
    /\ mfn = "none"
    /\ \E masks1 \in MaskLists :
        LET r == merge_masks(masks1)
        IN  /\ mfn' = "merge_masks"
            /\ mexc' = r.raised
            /\ masks' = masks1
            /\ held' = r.arg
            /\ color' = Black
            /\ out' = r.ret
            /\ out2' = <<>>
            /\ UNCHANGED <<initVars, annVars, tileVars, buildVars>>

MaskInit == AnnIdle /\ TileIdle /\ MaskIdle /\ BuildIdle

MaskNext == ColorMask \/ ColorMaskAgain \/ MergeMasks

SpecMask == MaskInit /\ [][MaskNext]_vars

(* C9: color_mask(mask, color) returns a new mask in which every pixel of  *)
(* mask that was not black (0, 0, 0) is color and every black pixel is     *)
(* still black, and leaves mask as it was; for a color that is not black,  *)
(* color_mask of the result with the same color is the result again.       *)
C9_RecolorIdempotent ==
    mfn = "color_mask" =>
        /\ mexc = "none"
        /\ held = masks
        /\ Len(out) = Len(masks[1])
        /\ \A i \in 1..Len(out) :
              out[i] = IF masks[1][i] # Black THEN color ELSE Black
        /\ (out2 # <<>> /\ color # Black) => out2 = out

C9_Witness ==
    /\ mfn = "color_mask"
    /\ color = <<0, 255, 0>>
    /\ masks = <<(<<Black, <<100, 0, 200>> >>)>>
    /\ out = <<Black, <<0, 255, 0>> >>
    /\ out2 = out

RECURSIVE ChannelSum(_, _, _, _)
ChannelSum(masks1, i, c, k) ==
    IF k = 0 THEN 0 ELSE masks1[k][i][c] + ChannelSum(masks1, i, c, k - 1)

SameDimensions(masks1) ==
    \A j, k \in 1..Len(masks1) : Len(masks1[j]) = Len(masks1[k])

(* C10: for a non-empty list of masks of the same dimensions with channels *)
(* in 0..255, merge_masks returns, in every channel of every pixel, the    *)
(* sum of that channel over the masks, or 255 when the sum is above 255,   *)
(* never the sum modulo 256; so merge_masks([m1]) is m1 and                *)
(* merge_masks([m1, m2]) is merge_masks([m2, m1]).                         *)
C10_MergeSaturates ==
    (mfn = "merge_masks" /\ Len(masks) > 0 /\ SameDimensions(masks)) =>
        /\ mexc = "none"
        /\ held = masks
        /\ Len(out) = Len(masks[1])
        /\ \A i \in 1..Len(out), c \in 1..3 :
              out[i][c] = Min2(Uint8 - 1, ChannelSum(masks, i, c, Len(masks)))
        /\ Len(masks) = 1 => out = masks[1]
        /\ Len(masks) = 2 => out = merge_masks(<<masks[2], masks[1]>>).ret

C10_Witness ==
    /\ mfn = "merge_masks"
    /\ masks = << <<(<<100, 0, 200>>), Black>>,
                  <<(<<100, 0, 200>>), Black>>,
                  <<(<<100, 0, 200>>), <<200, 100, 255>> >> >>
    /\ out = << <<255, 0, 255>>, <<200, 100, 255>> >>

\* the calls the mask compositor is to reject: merge_masks of no mask or of
\* masks of different dimensions, color_mask with the color black
InvalidCall ==
    \/ mfn = "merge_masks" /\ (masks = <<>> \/ ~SameDimensions(masks))
    \/ mfn = "color_mask" /\ color = Black

(* C11: merge_masks called with an empty list, merge_masks called with     *)
(* masks of different dimensions and color_mask called with the color      *)
(* black (0, 0, 0) each fail with an error and return no mask. The code    *)
(* has no exception named InvalidArgument: every exception the call        *)
(* raises counts as one here.                                              *)
C11_RejectsInvalidArguments ==
    InvalidCall => (mexc # "none" /\ out = <<>>)

-----------------------------------------------------------------------------
(* annotation.py: build, which resolves its arguments, calls build_images, *)
(* build_categories and build_annotations and hands what they return to    *)
(* the constructor. build_annotations is abstract in Annotation; the one   *)
(* modelled is that of a variant which returns one annotation for each     *)
(* image it is handed, naming the image by its position.                   *)

\* a call made by the function from: its argument and what it returned
Called(fn, from, arg, result) ==
    [arg |-> arg, fn |-> fn, from |-> from, ret |-> result]

\* build_annotations of a variant
build_annotations(images, labels, categories) ==
    [i \in 1..Len(images) |-> [id |-> i - 1, image_id |-> i - 1]]

\* a list of dicts as the constructor receives it
ToPy(records) == PyList([i \in 1..Len(records) |-> PyDict(records[i])])

\* build with build_annotations handed the images as build received them
build_unresolved(images, found_images, labels, found_labels, categories, from_colors) ==
    LET images_paths == get_paths(images, found_images)
        labels_paths == get_paths(labels, found_labels)
        categories1 == get_categories(categories, from_colors)
        images_paths2 == get_paths(images_paths, <<>>)
        info_images == build_images(images_paths2)
        categories2 == get_categories(categories1, <<>>)
        info_categories == build_categories(categories2)
        handed == [categories |-> categories1, images |-> images, labels |-> labels_paths]
        info_annotations == build_annotations(images, labels_paths, categories1)
    IN  [calls |-> << Called("get_paths", "build", images, images_paths),
                      Called("get_paths", "build", labels, labels_paths),
                      Called("get_categories", "build", categories, categories1),
                      Called("build_images", "build", images_paths, info_images),
                      Called("get_paths", "build_images", images_paths, images_paths2),
                      Called("build_categories", "build", categories1, info_categories),
                      Called("get_categories", "build_categories", categories1, categories2),
                      Called("build_annotations", "build", handed, info_annotations) >>,
         made |-> __init__(ToPy(info_images), ToPy(info_categories),
                           ToPy(info_annotations), PyNone)]

\* Annotation.build: [calls, made]. found_images and found_labels are what
\* the directories hold, from_colors the categories made from the colors.
build(images, found_images, labels, found_labels, categories, from_colors) ==
    LET images_paths == get_paths(images, found_images)              \* line 229
        labels_paths == get_paths(labels, found_labels)              \* line 230
        categories1 == get_categories(categories, from_colors)       \* line 231
        \* build_images(images=images_paths): line 186 resolves the list it
        \* is handed, in_dir being None
        images_paths2 == get_paths(images_paths, <<>>)
        info_images == build_images(images_paths2)
        \* build_categories(categories=categories): line 156 resolves the
        \* list it is handed, colors being None
        categories2 == get_categories(categories1, <<>>)
        info_categories == build_categories(categories2)
        handed == [categories |-> categories1, images |-> images_paths, labels |-> labels_paths]
        info_annotations == build_annotations(images_paths, labels_paths, categories1)
    IN  [calls |-> << Called("get_paths", "build", images, images_paths),
                      Called("get_paths", "build", labels, labels_paths),
                      Called("get_categories", "build", categories, categories1),
                      Called("build_images", "build", images_paths, info_images),
                      Called("get_paths", "build_images", images_paths, images_paths2),
                      Called("build_categories", "build", categories1, info_categories),
                      Called("get_categories", "build_categories", categories1, categories2),
                      Called("build_annotations", "build", handed, info_annotations) >>,
         made |-> __init__(ToPy(info_images), ToPy(info_categories),
                           ToPy(info_annotations), PyNone)]

LabelObjs ==
    { [cls |-> "str", text |-> "a_mask.png"],
      [cls |-> "Path", text |-> "b_mask.png"] }

\* Annotation.build(images, categories, labels, dir_images, dir_labels, colors):
\* the calls are independent of one another, a behaviour follows one of them
Build ==
    /\ calls = <<>>
    /\ \E n \in 0..MaxItems :
         \E images \in [1..n -> PathObjs],
            found_images \in SeqsUpTo(PathObjs, MaxItems - n),
            labels \in SeqsUpTo(LabelObjs, 1),
            found_labels \in SeqsUpTo(LabelObjs, 1),
            categories \in SeqsUpTo(CategoryObjs, 1),
            from_colors \in SeqsUpTo(CategoryObjs, 1) :
           LET r == build(images, found_images, labels, found_labels,
                          categories, from_colors)
           IN  /\ calls' = r.calls
               /\ made' = r.made
    /\ UNCHANGED <<resolved, built>>
    /\ UNCHANGED <<initVars, annVars, tileVars, maskVars>>

AssembleInit == AnnIdle /\ TileIdle /\ MaskIdle /\ BuildIdle

AssembleNext == Build

SpecAssemble == AssembleInit /\ [][AssembleNext]_vars

\* the positions in calls of the calls of fn made by from
CallsOf(fn, from) ==
    {k \in 1..Len(calls) : calls[k].fn = fn /\ calls[k].from = from}

Pos(fn) == CHOOSE k \in 1..Len(calls) : calls[k].fn = fn /\ calls[k].from = "build"

\* build calls build_images, build_categories and build_annotations once
\* each, in this order, after it resolved its arguments
CalledInOrder ==
    /\ \A fn \in {"build_images", "build_categories", "build_annotations"} :
          Cardinality(CallsOf(fn, "build")) = 1
    /\ Pos("build_images") < Pos("build_categories")
    /\ Pos("build_categories") < Pos("build_annotations")
    /\ \A k \in CallsOf("get_paths", "build") \cup CallsOf("get_categories", "build") :
          k < Pos("build_images")

\* the three work on the lists build resolved: the image paths of the first
\* get_paths, the label paths of the second, the categories of get_categories
SameLists ==
    LET images_paths == calls[1].ret
        labels_paths == calls[2].ret
        categories == calls[Pos("get_categories")].ret
        handed == calls[Pos("build_annotations")].arg
    IN  /\ calls[Pos("build_images")].arg = images_paths
        /\ calls[Pos("build_categories")].arg = categories
        /\ handed.images = images_paths
        /\ handed.labels = labels_paths
        /\ handed.categories = categories

\* the image with id i of the Annotation is the i-th image handed to
\* build_annotations, the category with id i the i-th category
IdsFollowHanded ==
    LET handed == calls[Pos("build_annotations")].arg
        s == made.self
    IN  /\ made.raised = "none"
        /\ Len(s.images) = Len(handed.images)
        /\ \A i \in 1..Len(s.images) :
              /\ s.images[i].id = i - 1
              /\ s.images[i].file_name = str(handed.images[i])
        /\ Len(s.categories) = Len(handed.categories)
        /\ \A i \in 1..Len(s.categories) :
              /\ s.categories[i].id = i - 1
              /\ s.categories[i].name = str(handed.categories[i].name)

(* C12, as claimed: in one build call the image paths, the label paths and *)
(* the categories are each resolved once, and no step resolves them again: *)
(* get_paths is called twice, get_categories once, both by build only;     *)
(* build_images, build_categories and build_annotations are then called in *)
(* this order on the same resolved lists, and the image with id i is the   *)
(* i-th image handed to build_annotations.                                 *)
C12_ResolvedOnce ==
    calls # <<>> =>
        /\ \A k \in 1..Len(calls) :
              calls[k].fn \in {"get_paths", "get_categories"} => calls[k].from = "build"
        /\ Cardinality(CallsOf("get_paths", "build")) = 2
        /\ Cardinality(CallsOf("get_categories", "build")) = 1
        /\ CalledInOrder
        /\ SameLists
        /\ IdsFollowHanded

(* C12, amended: build resolves the image paths, the label paths and the   *)
(* categories once each; build_images, build_categories and                *)
(* build_annotations are then called in this order and are handed the same *)
(* resolved lists. build_images and build_categories each resolve the list *)
(* they are handed once more, without directory and without colors, which  *)
(* gives that list again, so the image with id i is the i-th image handed  *)
(* to build_annotations.                                                   *)
C12_SameResolvedLists ==
    calls # <<>> =>
        /\ Cardinality(CallsOf("get_paths", "build")) = 2
        /\ Cardinality(CallsOf("get_categories", "build")) = 1
        /\ CalledInOrder
        /\ SameLists
        /\ Cardinality(CallsOf("get_paths", "build_images")) = 1
        /\ Cardinality(CallsOf("get_categories", "build_categories")) = 1
        /\ \A k \in 1..Len(calls) :
              calls[k].from \in {"build_images", "build_categories"} =>
                  /\ calls[k].ret = calls[k].arg
                  /\ k > Pos(calls[k].from)
                  /\ calls[k].arg = calls[Pos(calls[k].from)].arg
        /\ IdsFollowHanded

C12_Witness ==
    /\ calls # <<>>
    /\ Len(calls[1].arg) = 1
    /\ Len(calls[1].ret) = 3
    /\ Len(calls[Pos("get_categories")].ret) = 1
    /\ calls[Pos("build_annotations")].arg.images = calls[1].ret
    /\ Len(made.self.images) = 3
    /\ made.self.images[1].file_name = "b.png"
    /\ made.self.images[3].file_name = "a.png"
    /\ Len(made.self.annotations) = 3

-----------------------------------------------------------------------------
(* to_dict on records without a path.                                      *)

\* the path field of the record src is absent or none
NoPath(src, key) == key \notin DOMAIN src \/ src[key] = None

\* dst is src with its path field passed through unchanged
PassedThrough(src, dst, key) ==
    /\ key \notin DOMAIN src => key \notin DOMAIN dst
    /\ (key \in DOMAIN src /\ src[key] = None) =>
          (key \in DOMAIN dst /\ dst[key] = None)
    /\ DOMAIN dst = DOMAIN src

(* C13: for a record whose path field (file_name of an image or category,  *)
(* image_name of an annotation) is absent or none, to_dict raises no error *)
(* and passes the field through unchanged: an absent field is still absent *)
(* in the output record, a none field is still none, and the output record *)
(* has the same keys as the source record.                                 *)
C13_NoPathPassedThrough ==
    op = "to_dict" =>
        /\ ret.kind = "dict"
        /\ \A attr \in {"images", "categories", "annotations"} :
             /\ Len(ret.obj[attr].obj) = Len(self[attr])
             /\ \A i \in 1..Len(self[attr]) :
                  NoPath(self[attr][i], PathKey(attr)) =>
                      PassedThrough(self[attr][i], ret.obj[attr].obj[i], PathKey(attr))

====
